---- MODULE Spec2Model ----
(***************************************************************************)
(* BRSP (serial bridge over GATT), src/brsp.go.                            *)
(*                                                                         *)
(* Three goroutines and their callers:                                     *)
(*   - BRSP.loop   (the Engine): owns txMode, outData, both brspQueues,    *)
(*                 readReqs, flushReqs, readError, writeError;             *)
(*   - BRSP.writer (the Pump): takes outData from outgoingData, performs   *)
(*                 the physical write, reports a failure on writeErrors;   *)
(*   - callers of Read / Write / Flush / Close, and the notification       *)
(*                 callback onTx of the GATT stack.                        *)
(* All channels are unbuffered: a send completes only together with the    *)
(* matching receive.                                                       *)
(***************************************************************************)
EXTENDS Integers, Sequences, FiniteSets, TLC

\* ------------------------------------------------------------------ bounds
\* Write and Flush calls made on a stream used for output only (SpecOut)
MaxOut == 3
\* the same under the scheduling assumptions (FairSpecOut)
MaxFairOut == 2
\* Read calls made, and notifications delivered, on a stream used for input
\* only (SpecIn)
MaxIn == 2
MaxNotifs == 2
\* the same three numbers for a stream used in both directions (Spec)
MixOut == 2
MixIn == 1
MixNotifs == 1
\* read and write calls made on a brspQueue on its own (SpecQueue)
MaxQueueOps == 5

\* ------------------------------------------------------- program constants
ChunkSize == 20
MinGrow == 256

\* Lengths of the buffers the callers pass to Write and Read, and of the
\* payloads of the notifications.
WriteLens == {0, 20, 45}
ReadLens == {0, 2, 20}
NotifLens == {0, 3}
\* Lengths of the buffers passed to brspQueue.write and brspQueue.read when
\* the queue is exercised on its own: around the first capacity of MinGrow.
QueueWriteLens == {0, 6, 20, 250, 300}
QueueReadLens == {0, 5, 249}

VARIABLES
    txMode,       \* BRSP.txMode
    outData,      \* BRSP.outData: [data: 20 bytes, n]
    inQueue,      \* BRSP.inQueue: [data, head, tail]
    outQueue,     \* BRSP.outQueue
    readReqs,     \* BRSP.readReqs: pending Read calls, oldest first
    flushReqs,    \* BRSP.flushReqs: reply channels of Flush calls
    readError,    \* BRSP.readError
    writeError,   \* BRSP.writeError
    closed,       \* BRSP.closed has been closed
    enginePc,     \* where BRSP.loop is
    pump,         \* BRSP.writer: [pc, d, err]
    calls,        \* the Read / Write / Flush calls made so far
    sent,         \* history: payloads of the physical writes, in issue order
    notified,     \* history: notifications in the order they reached the Engine
    cycle,        \* history: the Writes accepted since the Engine last left Idle
    accOrder,     \* history: the calls in the order the Engine accepted them
    readReplies,  \* history: the Read calls in the order they were replied to
    owed,         \* history: a physical write failed and no Flush has returned since
    budget,       \* the calls and notifications the environment may still make
    open,         \* OpenBRSP / BRSP.init / BRSP.discover: position, peripheral, handles
    ring          \* a brspQueue on its own, with the bytes written to and read from it

engineVars == <<txMode, outData, inQueue, outQueue, readReqs, flushReqs,
                readError, writeError>>

vars == <<txMode, outData, inQueue, outQueue, readReqs, flushReqs, readError,
          writeError, closed, enginePc, pump, calls, sent, notified, cycle,
          accOrder, readReplies, owed, budget, open, ring>>

\* ------------------------------------------------------------------ errors
Nil == [kind |-> "nil", id |-> 0]
ErrClosed == [kind |-> "closed", id |-> 0]
\* the error returned by the k-th physical write
WriteErr(k) == [kind |-> "write", id |-> k]
\* the error carried by the k-th notification
NotifyErr(k) == [kind |-> "notify", id |-> k]
ErrNotBRSP == [kind |-> "notBRSP", id |-> 0]
\* the error returned by the k-th call OpenBRSP makes on the Peripheral
PeripheralErr(k) == [kind |-> "peripheral", id |-> k]

\* ----------------------------------------------------------------- helpers
Min(a, b) == IF a < b THEN a ELSE b

\* make([]byte, n)
MakeBytes(n) == [i \in 1..n |-> 0]

\* dst after Go's copy(dst[off:], src): copies min(len(dst)-off, len(src)) bytes.
CopyAt(dst, off, src) ==
    LET n == Min(Len(dst) - off, Len(src))
    IN  [i \in 1..Len(dst) |-> IF i > off /\ i <= off + n THEN src[i - off] ELSE dst[i]]

\* p[k:] of Go
Drop(p, k) == SubSeq(p, k + 1, Len(p))

\* The payload of a buffer of n bytes whose first byte is byte number from+1
\* of its stream: every byte of a stream carries its own position (mod 256).
Bytes(from, n) == [i \in 1..n |-> (from + i) % 256]

IsPrefix(s, t) == Len(s) <= Len(t) /\ SubSeq(t, 1, Len(s)) = s

\* ---------------------------------------------------------------- brspQueue
EmptyQueue == [data |-> <<>>, head |-> 0, tail |-> 0]

queued(q) ==
    IF q.head >= q.tail THEN q.head - q.tail
    ELSE Len(q.data) + q.head - q.tail

\* brspQueue.read(p) with len(p) = plen: the queue afterwards and the bytes
\* copied into p[0:n].
read(q, plen) ==
    LET len == Len(q.data)
        n1 == IF q.head >= q.tail THEN Min(plen, q.head - q.tail)
              ELSE Min(plen, len - q.tail)
        out1 == SubSeq(q.data, q.tail + 1, q.tail + n1)
        tail1 == q.tail + n1
        wrap == q.head < q.tail /\ tail1 = len
        m == IF wrap THEN Min(plen - n1, q.head) ELSE 0
        out == IF wrap THEN out1 \o SubSeq(q.data, 1, m) ELSE out1
        tail2 == IF wrap THEN m ELSE tail1
    IN  [q |-> IF tail2 = q.head
               THEN [q EXCEPT !.head = 0, !.tail = 0]
               ELSE [q EXCEPT !.tail = tail2],
         out |-> out]

\* brspQueue.write without "p = p[n:]": after filling the end of the buffer
\* it copies the whole of p to the front
writeKeepsHead(q, p) ==
    LET space == Len(q.data) - queued(q)
        grow == Len(p) >= space
        need0 == Len(p) - space + 1
        need == IF need0 < MinGrow THEN MinGrow ELSE need0
        r == read(q, Len(q.data) + need)
        g == IF grow
             THEN [data |-> CopyAt(MakeBytes(Len(q.data) + need), 0, r.out),
                   head |-> Len(r.out), tail |-> 0]
             ELSE q
        n == Len(g.data) - g.head
        split == n < Len(p)
        data1 == IF split THEN CopyAt(g.data, g.head, p) ELSE g.data
        head1 == IF split THEN 0 ELSE g.head
    IN  [data |-> CopyAt(data1, head1, p), head |-> head1 + Len(p), tail |-> g.tail]

\* brspQueue.write growing on "len(p) > space": a write of exactly the free
\* space fills the buffer
writeFillsUp(q, p) ==
    LET space == Len(q.data) - queued(q)
        grow == Len(p) > space
        need0 == Len(p) - space + 1
        need == IF need0 < MinGrow THEN MinGrow ELSE need0
        r == read(q, Len(q.data) + need)
        g == IF grow
             THEN [data |-> CopyAt(MakeBytes(Len(q.data) + need), 0, r.out),
                   head |-> Len(r.out), tail |-> 0]
             ELSE q
        n == Len(g.data) - g.head
        split == n < Len(p)
        data1 == IF split THEN CopyAt(g.data, g.head, p) ELSE g.data
        p1 == IF split THEN Drop(p, n) ELSE p
        head1 == IF split THEN 0 ELSE g.head
    IN  [data |-> CopyAt(data1, head1, p1), head |-> head1 + Len(p1), tail |-> g.tail]

\* brspQueue.write(p): the queue afterwards.
write(q, p) ==
    LET space == Len(q.data) - queued(q)
        grow == Len(p) >= space
        need0 == Len(p) - space + 1
        need == IF need0 < MinGrow THEN MinGrow ELSE need0
        r == read(q, Len(q.data) + need)
        g == IF grow
             THEN [data |-> CopyAt(MakeBytes(Len(q.data) + need), 0, r.out),
                   head |-> Len(r.out), tail |-> 0]
             ELSE q
        n == Len(g.data) - g.head
        split == n < Len(p)
        data1 == IF split THEN CopyAt(g.data, g.head, p) ELSE g.data
        p1 == IF split THEN Drop(p, n) ELSE p
        head1 == IF split THEN 0 ELSE g.head
    IN  [data |-> CopyAt(data1, head1, p1), head |-> head1 + Len(p1), tail |-> g.tail]

\* ------------------------------------------------------------------- calls
\* A call of Read, Write or Flush.  st is where its caller is:
\*   "sending"  blocked in the send of its request (b.readReq <- req, ...),
\*   "waiting"  request taken by the Engine, blocked in the receive of the reply,
\*   "done"     returned, with data (Read) and err.
\* n (Write): the count the call returned.
\* queued: the Engine appended the request to readReqs / flushReqs.
\* mark (Flush): the number of Write calls made so far, when the call before it
\* was a Flush that had returned and no Write call was outstanding; else -1.
\* late: the call was made after BRSP.loop had exited.
\* atClose: the call was waiting for its reply when Close was called.
NewCall(kind, p, plen, mark) ==
    [kind |-> kind, p |-> p, plen |-> plen, st |-> "sending", data |-> <<>>, n |-> 0,
     err |-> Nil, queued |-> FALSE, mark |-> mark,
     late |-> (enginePc = "exited"), atClose |-> FALSE]

CallIds == 1..Len(calls)

CallsOf(kind) == {c \in CallIds : calls[c].kind = kind}

RECURSIVE TotalLen(_)
\* number of bytes in the buffers of the Write calls among cs
TotalLen(cs) ==
    IF cs = <<>> THEN 0 ELSE Len(cs[Len(cs)].p) + TotalLen(SubSeq(cs, 1, Len(cs) - 1))

RECURSIVE Flatten(_)
\* concatenation of a sequence of byte sequences
Flatten(ss) == IF ss = <<>> THEN <<>> ELSE ss[1] \o Flatten(Tail(ss))

\* the reply channel of call c gets its result: the caller returns
Reply(cs, c, data, err) == [cs EXCEPT ![c].st = "done", ![c].data = data, ![c].err = err]

\* The Engine sends on the channels reqs, in order.  A channel whose caller has
\* already returned has no receiver any more: the send blocks for ever.
\* FirstStale is the position of the first such channel (Len+1 when none).
FirstStale(reqs) ==
    IF \E i \in 1..Len(reqs) : calls[reqs[i]].st = "done"
    THEN CHOOSE i \in 1..Len(reqs) :
            /\ calls[reqs[i]].st = "done"
            /\ \A j \in 1..(i - 1) : calls[reqs[j]].st # "done"
    ELSE Len(reqs) + 1

\* the first k channels of reqs get err
ReplyAll(cs, reqs, k, err) ==
    [c \in 1..Len(cs) |->
        IF \E i \in 1..k : reqs[i] = c
        THEN [cs[c] EXCEPT !.st = "done", !.err = err]
        ELSE cs[c]]

\* BRSP.writer outside the body of its receive case: d and err are out of scope
PumpAt(pc) == [pc |-> pc, d |-> [data |-> MakeBytes(ChunkSize), n |-> 0], err |-> Nil]

\* --------------------------------------------------------------- Peripheral
\* The UUIDs the peripheral may answer a discovery with, and the calls
\* OpenBRSP makes on it, in the order of the code.
Services == {"brspService", "other"}
Characteristics == {"brspMode", "brspRx", "brspTx"}
OpenCalls == <<"DiscoverServices", "DiscoverCharacteristics", "DiscoverDescriptors",
               "SetIndicateValue", "SetIndicateValue", "WriteCharacteristic">>

\* A peripheral: the services and characteristics its discoveries report, and
\* the call of OpenCalls it answers with an error (0: none).
Peripherals == [svcs : SUBSET Services, chars : SUBSET Characteristics,
                fail : 0..Len(OpenCalls)]

\* one call on the Peripheral, as the peripheral sees it
PCall(name, char, arg) == [call |-> name, char |-> char, arg |-> arg]

\* OpenBRSP at its first statement, given peripheral p.  step: the call of
\* OpenCalls it makes next (Len+1: "go b.loop(); go b.writer()"; 0: returned).
\* svc, mode, rx, tx: b.brspService, b.brspMode, b.brspRx, b.brspTx are set.
\* log: the calls made on the Peripheral.  err: what OpenBRSP returned.
OpenAt(p) == [p |-> p, step |-> 1, svc |-> FALSE, mode |-> FALSE, rx |-> FALSE,
              tx |-> FALSE, log |-> <<>>, err |-> Nil]

\* the calls of a successful OpenBRSP
OpenLog == <<PCall("DiscoverServices", "", "brspService"),
             PCall("DiscoverCharacteristics", "", "brspMode,brspRx,brspTx"),
             PCall("DiscoverDescriptors", "brspTx", "nil"),
             PCall("SetIndicateValue", "brspTx", "nil"),
             PCall("SetIndicateValue", "brspTx", "onTx"),
             PCall("WriteCharacteristic", "brspMode", "[1],true")>>

\* OpenBRSP after it returned (b, nil)
Opened == [p |-> [svcs |-> {"brspService"}, chars |-> Characteristics, fail |-> 0],
           step |-> 0, svc |-> TRUE, mode |-> TRUE, rx |-> TRUE, tx |-> TRUE,
           log |-> OpenLog, err |-> Nil]

\* A brspQueue nothing was done with.  in, out: the bytes passed to write and
\* returned by read so far.  last: the last call, the length of its buffer,
\* the count it returned (read), and the capacity and the number of queued
\* bytes it found.  seen: the cases the calls so far went through.
NoRing == [q |-> EmptyQueue, in |-> <<>>, out |-> <<>>,
           last |-> [op |-> "none", len |-> 0, n |-> 0, cap |-> 0, was |-> 0],
           seen |-> {}, ops |-> 0]

\* ------------------------------------------------------------------ Init
\* The state OpenBRSP leaves, with the calls and notifications the environment
\* is going to make: outs Write or Flush calls, reads Read calls, notifs
\* notifications.
InitWith(b) ==
    /\ txMode = FALSE
    /\ outData = [data |-> MakeBytes(ChunkSize), n |-> 0]
    /\ inQueue = EmptyQueue
    /\ outQueue = EmptyQueue
    /\ readReqs = <<>>
    /\ flushReqs = <<>>
    /\ readError = Nil
    /\ writeError = Nil
    /\ closed = FALSE
    /\ enginePc = "loop"
    /\ pump = PumpAt("select")
    /\ calls = <<>>
    /\ sent = <<>>
    /\ notified = <<>>
    /\ cycle = [start |-> 0, writes |-> <<>>]
    /\ accOrder = <<>>
    /\ readReplies = <<>>
    /\ owed = FALSE
    /\ budget = b
    /\ open = Opened
    /\ ring = NoRing

Init == InitWith([outs |-> MixOut, reads |-> MixIn, notifs |-> MixNotifs])

\* a stream used for output only
InitOut == InitWith([outs |-> MaxOut, reads |-> 0, notifs |-> 0])

\* a stream used for input only
InitIn == InitWith([outs |-> 0, reads |-> MaxIn, notifs |-> MaxNotifs])

\* ---------------------------------------------------------- Engine handlers
\* Each handler gives the Engine's fields, enginePc, calls and the reply
\* histories their next values.

handleFlushReq(c) ==
    /\ IF txMode
       THEN /\ flushReqs' = Append(flushReqs, c)
            /\ calls' = [calls EXCEPT ![c].st = "waiting", ![c].queued = TRUE]
            /\ UNCHANGED <<writeError, owed>>
       ELSE /\ calls' = Reply(calls, c, <<>>, writeError)
            /\ writeError' = Nil
            /\ owed' = FALSE
            /\ UNCHANGED flushReqs
    /\ UNCHANGED <<txMode, outData, inQueue, outQueue, readReqs, readError, enginePc,
                   readReplies>>

\* handleIncomingData serving the newest pending Read instead of the oldest
handleIncomingDataNewestFirst(i) ==
    /\ IF Len(readReqs) > 0
       THEN LET rr == readReqs[Len(readReqs)]
                n == Min(calls[rr].plen, i.n)
            IN  /\ readReqs' = SubSeq(readReqs, 1, Len(readReqs) - 1)
                /\ inQueue' = IF i.n > n
                              THEN write(inQueue, SubSeq(i.data, n + 1, i.n))
                              ELSE inQueue
                /\ calls' = Reply(calls, rr, SubSeq(i.data, 1, n), i.err)
                /\ readReplies' = Append(readReplies, rr)
                /\ UNCHANGED readError
       ELSE /\ inQueue' = write(inQueue, SubSeq(i.data, 1, i.n))
            /\ readError' = IF i.err # Nil THEN i.err ELSE readError
            /\ UNCHANGED <<readReqs, calls, readReplies>>
    /\ UNCHANGED <<txMode, outData, outQueue, flushReqs, writeError, enginePc, owed>>

handleIncomingData(i) ==
    /\ IF Len(readReqs) > 0
       THEN LET rr == readReqs[1]
                n == Min(calls[rr].plen, i.n)
            IN  /\ readReqs' = Tail(readReqs)
                /\ inQueue' = IF i.n > n
                              THEN write(inQueue, SubSeq(i.data, n + 1, i.n))
                              ELSE inQueue
                /\ calls' = Reply(calls, rr, SubSeq(i.data, 1, n), i.err)
                /\ readReplies' = Append(readReplies, rr)
                /\ UNCHANGED readError
       ELSE /\ inQueue' = write(inQueue, SubSeq(i.data, 1, i.n))
            /\ readError' = IF i.err # Nil THEN i.err ELSE readError
            /\ UNCHANGED <<readReqs, calls, readReplies>>
    /\ UNCHANGED <<txMode, outData, outQueue, flushReqs, writeError, enginePc, owed>>

\* handleOutgoingData without the branch "else if b.outData.n > 0": the Engine
\* goes Idle as soon as the queue is empty, while the last chunk is in flight
handleOutgoingDataEarlyIdle ==
    LET r == read(outQueue, ChunkSize)
        n == Len(r.out)
    IN  /\ outQueue' = r.q
        /\ IF n > 0
           THEN /\ outData' = [data |-> CopyAt(outData.data, 0, r.out), n |-> n]
                /\ UNCHANGED <<txMode, writeError, calls, enginePc, owed>>
           ELSE LET k == FirstStale(flushReqs) - 1
                IN  /\ txMode' = FALSE
                    /\ outData' = [outData EXCEPT !.n = 0]
                    /\ calls' = ReplyAll(calls, flushReqs, k, writeError)
                    /\ owed' = IF k > 0 THEN FALSE ELSE owed
                    /\ IF k < Len(flushReqs)
                       THEN /\ enginePc' = "stuckFlush"
                            /\ UNCHANGED writeError
                       ELSE /\ writeError' = Nil
                            /\ UNCHANGED enginePc
        /\ UNCHANGED <<inQueue, readReqs, flushReqs, readError, readReplies>>

\* handleOutgoingData refilling the chunk with one byte less than it holds
handleOutgoingDataShortChunk ==
    LET r == read(outQueue, ChunkSize - 1)
        n == Len(r.out)
    IN  /\ outQueue' = r.q
        /\ IF n > 0
           THEN /\ outData' = [data |-> CopyAt(outData.data, 0, r.out), n |-> n]
                /\ UNCHANGED <<txMode, writeError, calls, enginePc, owed>>
           ELSE IF outData.n > 0
           THEN /\ outData' = [outData EXCEPT !.n = 0]
                /\ UNCHANGED <<txMode, writeError, calls, enginePc, owed>>
           ELSE LET k == FirstStale(flushReqs) - 1
                IN  /\ txMode' = FALSE
                    /\ calls' = ReplyAll(calls, flushReqs, k, writeError)
                    /\ owed' = IF k > 0 THEN FALSE ELSE owed
                    /\ IF k < Len(flushReqs)
                       THEN /\ enginePc' = "stuckFlush"
                            /\ UNCHANGED writeError
                       ELSE /\ writeError' = Nil
                            /\ UNCHANGED enginePc
                    /\ UNCHANGED outData
        /\ UNCHANGED <<inQueue, readReqs, flushReqs, readError, readReplies>>

\* handleOutgoingData without "b.writeError = nil" after the Idle transition
handleOutgoingDataKeepsError ==
    LET r == read(outQueue, ChunkSize)
        n == Len(r.out)
    IN  /\ outQueue' = r.q
        /\ IF n > 0
           THEN /\ outData' = [data |-> CopyAt(outData.data, 0, r.out), n |-> n]
                /\ UNCHANGED <<txMode, writeError, calls, enginePc, owed>>
           ELSE IF outData.n > 0
           THEN /\ outData' = [outData EXCEPT !.n = 0]
                /\ UNCHANGED <<txMode, writeError, calls, enginePc, owed>>
           ELSE LET k == FirstStale(flushReqs) - 1
                IN  /\ txMode' = FALSE
                    /\ calls' = ReplyAll(calls, flushReqs, k, writeError)
                    /\ owed' = IF k > 0 THEN FALSE ELSE owed
                    /\ enginePc' = IF k < Len(flushReqs) THEN "stuckFlush" ELSE enginePc
                    /\ UNCHANGED <<outData, writeError>>
        /\ UNCHANGED <<inQueue, readReqs, flushReqs, readError, readReplies>>

handleOutgoingData ==
    LET r == read(outQueue, ChunkSize)
        n == Len(r.out)
    IN  /\ outQueue' = r.q
        /\ IF n > 0
           THEN /\ outData' = [data |-> CopyAt(outData.data, 0, r.out), n |-> n]
                /\ UNCHANGED <<txMode, writeError, calls, enginePc, owed>>
           ELSE IF outData.n > 0
           THEN /\ outData' = [outData EXCEPT !.n = 0]
                /\ UNCHANGED <<txMode, writeError, calls, enginePc, owed>>
           ELSE LET k == FirstStale(flushReqs) - 1
                IN  /\ txMode' = FALSE
                    /\ calls' = ReplyAll(calls, flushReqs, k, writeError)
                    /\ owed' = IF k > 0 THEN FALSE ELSE owed
                    /\ IF k < Len(flushReqs)
                       THEN /\ enginePc' = "stuckFlush"
                            /\ UNCHANGED writeError
                       ELSE /\ writeError' = Nil
                            /\ UNCHANGED enginePc
                    /\ UNCHANGED outData
        /\ UNCHANGED <<inQueue, readReqs, flushReqs, readError, readReplies>>

handleReadReq(c) ==
    /\ IF queued(inQueue) > 0
       THEN LET r == read(inQueue, calls[c].plen)
            IN  /\ inQueue' = r.q
                /\ calls' = Reply(calls, c, r.out, readError)
                /\ readReplies' = Append(readReplies, c)
                /\ readError' = Nil
                /\ UNCHANGED readReqs
       ELSE /\ readReqs' = Append(readReqs, c)
            /\ calls' = [calls EXCEPT ![c].st = "waiting", ![c].queued = TRUE]
            /\ UNCHANGED <<inQueue, readError, readReplies>>
    /\ UNCHANGED <<txMode, outData, outQueue, flushReqs, writeError, enginePc, owed>>

\* handleWriteError giving up what is queued behind the failed chunk
handleWriteErrorDropsQueue(e) ==
    /\ writeError' = e
    /\ outQueue' = EmptyQueue
    /\ UNCHANGED <<txMode, outData, inQueue, readReqs, flushReqs, readError,
                   enginePc, calls, readReplies, owed>>

handleWriteError(e) ==
    /\ writeError' = e
    /\ UNCHANGED <<txMode, outData, inQueue, outQueue, readReqs, flushReqs, readError,
                   enginePc, calls, readReplies, owed>>

\* handleWriteReq without "p = p[l:]": the first chunk is also queued
handleWriteReqKeepsHead(p) ==
    /\ IF ~txMode
       THEN LET l == Min(Len(p), ChunkSize)
            IN  /\ outData' = [data |-> CopyAt(outData.data, 0, p), n |-> l]
                /\ txMode' = TRUE
                /\ outQueue' = write(outQueue, p)
       ELSE /\ outQueue' = write(outQueue, p)
            /\ UNCHANGED <<outData, txMode>>
    /\ UNCHANGED <<inQueue, readReqs, flushReqs, readError, writeError, enginePc,
                   readReplies, owed>>

handleWriteReq(p) ==
    /\ IF ~txMode
       THEN LET l == Min(Len(p), ChunkSize)
            IN  /\ outData' = [data |-> CopyAt(outData.data, 0, p), n |-> l]
                /\ txMode' = TRUE
                /\ outQueue' = write(outQueue, Drop(p, l))
       ELSE /\ outQueue' = write(outQueue, p)
            /\ UNCHANGED <<outData, txMode>>
    /\ UNCHANGED <<inQueue, readReqs, flushReqs, readError, writeError, enginePc,
                   readReplies, owed>>

\* the deferred function of BRSP.loop
loopExit ==
    LET k == FirstStale(flushReqs) - 1
        flushed == ReplyAll(calls, flushReqs, k, ErrClosed)
    IN  /\ IF k < Len(flushReqs)
           THEN /\ enginePc' = "stuckClose"
                /\ calls' = flushed
                /\ UNCHANGED readReplies
           ELSE /\ enginePc' = "exited"
                /\ calls' = ReplyAll(flushed, readReqs, Len(readReqs), ErrClosed)
                /\ readReplies' = readReplies \o readReqs
        /\ UNCHANGED <<txMode, outData, inQueue, outQueue, readReqs, flushReqs, readError,
                       writeError, owed>>

\* ------------------------------------------------- BRSP.loop: one select case each
Sending(c) == c \in CallIds /\ calls[c].st = "sending"

EngineReadReq(c) ==
    /\ enginePc = "loop"
    /\ Sending(c) /\ calls[c].kind = "Read"
    /\ handleReadReq(c)
    /\ accOrder' = Append(accOrder, c)
    /\ UNCHANGED <<closed, pump, sent, notified, cycle, budget, open, ring>>

\* BRSP.Write returning the captured write-side error instead of nil
EngineWriteReqReturnsError(c) ==
    /\ enginePc = "loop"
    /\ Sending(c) /\ calls[c].kind = "Write"
    /\ handleWriteReq(calls[c].p)
    /\ calls' = [Reply(calls, c, <<>>, writeError) EXCEPT ![c].n = Len(calls[c].p)]
    /\ accOrder' = Append(accOrder, c)
    /\ cycle' = IF txMode THEN [cycle EXCEPT !.writes = Append(@, c)]
                ELSE [start |-> Len(sent), writes |-> <<c>>]
    /\ UNCHANGED <<closed, pump, sent, notified, budget, open, ring>>

\* BRSP.Write returns (len(p), nil) as soon as its send is taken
EngineWriteReq(c) ==
    /\ enginePc = "loop"
    /\ Sending(c) /\ calls[c].kind = "Write"
    /\ handleWriteReq(calls[c].p)
    /\ calls' = [Reply(calls, c, <<>>, Nil) EXCEPT ![c].n = Len(calls[c].p)]
    /\ accOrder' = Append(accOrder, c)
    /\ cycle' = IF txMode THEN [cycle EXCEPT !.writes = Append(@, c)]
                ELSE [start |-> Len(sent), writes |-> <<c>>]
    /\ UNCHANGED <<closed, pump, sent, notified, budget, open, ring>>

EngineFlushReq(c) ==
    /\ enginePc = "loop"
    /\ Sending(c) /\ calls[c].kind = "Flush"
    /\ handleFlushReq(c)
    /\ accOrder' = Append(accOrder, c)
    /\ UNCHANGED <<closed, pump, sent, notified, cycle, budget, open, ring>>

\* onTx: the callback of the GATT stack builds a brspIncoming from a
\* notification of len bytes and sends it to the Engine
EngineIncomingData(len, failed) ==
    /\ enginePc = "loop"
    /\ budget.notifs > 0
    /\ budget' = [budget EXCEPT !.notifs = @ - 1]
    /\ LET payload == Bytes(Len(Flatten([j \in 1..Len(notified) |-> notified[j].data])), len)
           bi == [data |-> CopyAt(MakeBytes(ChunkSize), 0, payload),
                  n |-> Min(ChunkSize, len),
                  err |-> IF failed THEN NotifyErr(Len(notified) + 1) ELSE Nil]
       IN  /\ notified' = Append(notified, [data |-> payload, err |-> bi.err])
           /\ handleIncomingData(bi)
    /\ UNCHANGED <<closed, pump, sent, cycle, accOrder, open, ring>>

\* case b.outgoingData <- b.outData, taken by the writer's receive
EngineOutgoingData ==
    /\ enginePc = "loop"
    /\ txMode
    /\ pump.pc = "select"
    /\ IF outData.n > 0
       THEN /\ pump' = [pc |-> "writing", d |-> outData, err |-> Nil]
            /\ sent' = Append(sent, SubSeq(outData.data, 1, outData.n))
       ELSE /\ UNCHANGED <<pump, sent>>
    /\ handleOutgoingData
    /\ UNCHANGED <<closed, notified, cycle, accOrder, budget, open, ring>>

EngineWriteError ==
    /\ enginePc = "loop"
    /\ pump.pc = "reporting"
    /\ handleWriteError(pump.err)
    /\ pump' = PumpAt("select")
    /\ UNCHANGED <<closed, sent, notified, cycle, accOrder, budget, open, ring>>

EngineClosed ==
    /\ enginePc = "loop"
    /\ closed
    /\ loopExit
    /\ UNCHANGED <<closed, pump, sent, notified, cycle, accOrder, budget, open, ring>>

\* ----------------------------------------------------------- BRSP.writer
\* WriteCharacteristic returns: nil, or the error of this physical write
PumpWriteDone(ok) ==
    /\ pump.pc = "writing"
    /\ IF ok
       THEN /\ pump' = PumpAt("select")
            /\ UNCHANGED owed
       ELSE /\ pump' = [pump EXCEPT !.pc = "reporting", !.err = WriteErr(Len(sent))]
            /\ owed' = TRUE
    /\ UNCHANGED <<engineVars, closed, enginePc, calls, sent, notified, cycle, accOrder,
                   readReplies, budget, open, ring>>

PumpClosed ==
    /\ pump.pc = "select"
    /\ closed
    /\ pump' = PumpAt("exited")
    /\ UNCHANGED <<engineVars, closed, enginePc, calls, sent, notified, cycle, accOrder,
                   readReplies, owed, budget, open, ring>>

\* ------------------------------------------------------------- the callers
\* A caller enters Read, Write or Flush.  The Engine takes one request at a
\* time, and callers blocked together in their sends are taken in any order:
\* that is the same as their entering one after the other in that order, so
\* a caller enters only when no other caller is blocked in its send.
CanInvoke == \A c \in CallIds : calls[c].st # "sending"

callerFrame == <<engineVars, closed, enginePc, pump, sent, notified, cycle, accOrder,
                 readReplies, owed, open, ring>>

InvokeRead(plen) ==
    /\ CanInvoke
    /\ budget.reads > 0
    /\ budget' = [budget EXCEPT !.reads = @ - 1]
    /\ calls' = Append(calls, NewCall("Read", <<>>, plen, -1))
    /\ UNCHANGED callerFrame

InvokeWrite(len) ==
    /\ CanInvoke
    /\ budget.outs > 0
    /\ budget' = [budget EXCEPT !.outs = @ - 1]
    /\ calls' = Append(calls, NewCall("Write", Bytes(TotalLen(calls), len), 0, -1))
    /\ UNCHANGED callerFrame

InvokeFlush ==
    /\ CanInvoke
    /\ budget.outs > 0
    /\ budget' = [budget EXCEPT !.outs = @ - 1]
    /\ calls' = Append(calls,
          NewCall("Flush", <<>>, 0,
                  IF /\ Len(calls) > 0
                     /\ calls[Len(calls)].kind = "Flush"
                     /\ calls[Len(calls)].st = "done"
                     /\ \A w \in CallsOf("Write") : calls[w].st = "done"
                  THEN Cardinality(CallsOf("Write")) ELSE -1))
    /\ UNCHANGED callerFrame

Close ==
    /\ ~closed
    /\ closed' = TRUE
    /\ calls' = [c \in CallIds |-> [calls[c] EXCEPT !.atClose = (calls[c].st = "waiting")]]
    /\ UNCHANGED <<engineVars, enginePc, pump, sent, notified, cycle, accOrder,
                   readReplies, owed, budget, open, ring>>

Next ==
    \/ \E n \in ReadLens : InvokeRead(n)
    \/ \E n \in WriteLens : InvokeWrite(n)
    \/ InvokeFlush
    \/ Close
    \/ \E c \in CallIds : EngineReadReq(c)
    \/ \E c \in CallIds : EngineWriteReq(c)
    \/ \E c \in CallIds : EngineFlushReq(c)
    \/ \E n \in NotifLens, failed \in BOOLEAN : EngineIncomingData(n, failed)
    \/ EngineOutgoingData
    \/ EngineWriteError
    \/ EngineClosed
    \/ \E ok \in BOOLEAN : PumpWriteDone(ok)
    \/ PumpClosed

Spec == Init /\ [][Next]_vars

\* The two directions share only closed and the position of the Engine: the
\* handlers of one leave the fields of the other unchanged.  Each is also
\* explored alone, with larger bounds.
NextOut ==
    \/ \E n \in WriteLens : InvokeWrite(n)
    \/ InvokeFlush
    \/ Close
    \/ \E c \in CallIds : EngineWriteReq(c)
    \/ \E c \in CallIds : EngineFlushReq(c)
    \/ EngineOutgoingData
    \/ EngineWriteError
    \/ EngineClosed
    \/ \E ok \in BOOLEAN : PumpWriteDone(ok)
    \/ PumpClosed

SpecOut == InitOut /\ [][NextOut]_vars

\* Scheduling: a select of Go picks among its ready cases at random, so a case
\* that stays ready is taken in the end; the writer goroutine runs; and the
\* transport's WriteCharacteristic returns.
FairSpecOut ==
    /\ InitWith([outs |-> MaxFairOut, reads |-> 0, notifs |-> 0])
    /\ [][NextOut]_vars
    /\ WF_vars(EngineOutgoingData)
    /\ WF_vars(EngineWriteError)
    /\ WF_vars(\E ok \in BOOLEAN : PumpWriteDone(ok))

NextIn ==
    \/ \E n \in ReadLens : InvokeRead(n)
    \/ Close
    \/ \E c \in CallIds : EngineReadReq(c)
    \/ \E n \in NotifLens, failed \in BOOLEAN : EngineIncomingData(n, failed)
    \/ EngineClosed
    \/ PumpClosed

SpecIn == InitIn /\ [][NextIn]_vars

\* ------------------------------------------------------------------ OpenBRSP
\* The BRSP struct as OpenBRSP makes it, for a peripheral p; neither goroutine
\* runs yet.
InitOpen ==
    /\ txMode = FALSE
    /\ outData = [data |-> MakeBytes(ChunkSize), n |-> 0]
    /\ inQueue = EmptyQueue
    /\ outQueue = EmptyQueue
    /\ readReqs = <<>>
    /\ flushReqs = <<>>
    /\ readError = Nil
    /\ writeError = Nil
    /\ closed = FALSE
    /\ enginePc = "notStarted"
    /\ pump = PumpAt("notStarted")
    /\ calls = <<>>
    /\ sent = <<>>
    /\ notified = <<>>
    /\ cycle = [start |-> 0, writes |-> <<>>]
    /\ accOrder = <<>>
    /\ readReplies = <<>>
    /\ owed = FALSE
    /\ budget = [outs |-> 0, reads |-> 0, notifs |-> 0]
    /\ open \in {OpenAt(p) : p \in Peripherals}
    /\ ring = NoRing

streamVars == <<engineVars, closed, calls, sent, notified, cycle, accOrder, readReplies,
                owed, budget, ring>>

\* OpenBRSP makes call c on the Peripheral
Called(c) == [open EXCEPT !.log = Append(@, c)]

\* "return err", up to the caller of OpenBRSP
OpenReturn(o, err) == [o EXCEPT !.step = 0, !.err = err]

\* call number k of OpenCalls, whose only result is its error
PeripheralCall(k, c) ==
    /\ open.step = k
    /\ open' = IF open.p.fail = k
               THEN OpenReturn(Called(c), PeripheralErr(k))
               ELSE [Called(c) EXCEPT !.step = k + 1]
    /\ UNCHANGED <<streamVars, enginePc, pump>>

\* BRSP.discover: DiscoverServices and the search for the service
DiscoverServices ==
    /\ open.step = 1
    /\ LET o == Called(PCall("DiscoverServices", "", "brspService"))
       IN  open' = IF open.p.fail = 1 THEN OpenReturn(o, PeripheralErr(1))
                   ELSE IF "brspService" \notin open.p.svcs THEN OpenReturn(o, ErrNotBRSP)
                   ELSE [o EXCEPT !.svc = TRUE, !.step = 2]
    /\ UNCHANGED <<streamVars, enginePc, pump>>

\* BRSP.discover accepting a peripheral without the transmit characteristic
DiscoverCharacteristicsSkipsTx ==
    /\ open.step = 2
    /\ LET o == Called(PCall("DiscoverCharacteristics", "", "brspMode,brspRx,brspTx"))
           found == [o EXCEPT !.mode = "brspMode" \in open.p.chars,
                              !.rx = "brspRx" \in open.p.chars,
                              !.tx = "brspTx" \in open.p.chars]
       IN  open' = IF open.p.fail = 2 THEN OpenReturn(o, PeripheralErr(2))
                   ELSE IF ~found.mode \/ ~found.rx THEN OpenReturn(found, ErrNotBRSP)
                   ELSE [found EXCEPT !.step = 3]
    /\ UNCHANGED <<streamVars, enginePc, pump>>

\* BRSP.discover: DiscoverCharacteristics and the search for the three handles
DiscoverCharacteristics ==
    /\ open.step = 2
    /\ LET o == Called(PCall("DiscoverCharacteristics", "", "brspMode,brspRx,brspTx"))
           found == [o EXCEPT !.mode = "brspMode" \in open.p.chars,
                              !.rx = "brspRx" \in open.p.chars,
                              !.tx = "brspTx" \in open.p.chars]
       IN  open' = IF open.p.fail = 2 THEN OpenReturn(o, PeripheralErr(2))
                   ELSE IF ~found.mode \/ ~found.rx \/ ~found.tx
                   THEN OpenReturn(found, ErrNotBRSP)
                   ELSE [found EXCEPT !.step = 3]
    /\ UNCHANGED <<streamVars, enginePc, pump>>

\* BRSP.discover: DiscoverDescriptors(nil, b.brspTx)
DiscoverDescriptors == PeripheralCall(3, PCall("DiscoverDescriptors", "brspTx", "nil"))

\* BRSP.init: SetIndicateValue(b.brspTx, nil)
InitClearIndicate == PeripheralCall(4, PCall("SetIndicateValue", "brspTx", "nil"))

\* BRSP.init: SetIndicateValue(b.brspTx, onTx)
InitSetIndicate == PeripheralCall(5, PCall("SetIndicateValue", "brspTx", "onTx"))

\* BRSP.init: WriteCharacteristic(b.brspMode, []byte{1}, true)
InitHandshake == PeripheralCall(6, PCall("WriteCharacteristic", "brspMode", "[1],true"))

\* OpenBRSP: go b.loop(); go b.writer(); return b, nil
OpenBRSPStart ==
    /\ open.step = Len(OpenCalls) + 1
    /\ enginePc' = "loop"
    /\ pump' = PumpAt("select")
    /\ open' = OpenReturn(open, Nil)
    /\ UNCHANGED streamVars

NextOpen ==
    \/ DiscoverServices
    \/ DiscoverCharacteristics
    \/ DiscoverDescriptors
    \/ InitClearIndicate
    \/ InitSetIndicate
    \/ InitHandshake
    \/ OpenBRSPStart

SpecOpen == InitOpen /\ [][NextOpen]_vars

\* ---------------------------------------------------- a brspQueue on its own
\* The payload of a buffer of n bytes written after from bytes: byte values
\* that do not repeat with the period of the first capacity.
QueueBytes(from, n) == [i \in 1..n |-> (from + i) % 251]

\* the cases of brspQueue.write that the call taking q to q2 went through
WriteCases(q, q2, p) ==
    LET grown == Len(q2.data) > Len(q.data)
    IN  {c \in {"grow", "growWrapped", "growBig", "straddle", "exactEnd", "fromEnd"} :
            \/ c = "grow" /\ grown
            \/ c = "growWrapped" /\ grown /\ q.head < q.tail
            \/ c = "growBig" /\ Len(q2.data) - Len(q.data) > MinGrow
            \/ c = "straddle" /\ ~grown /\ q.head >= q.tail /\ q2.head < q2.tail
                              /\ q.head < Len(q.data)
            \/ c = "exactEnd" /\ Len(p) > 0 /\ q2.head = Len(q2.data)
            \/ c = "fromEnd" /\ ~grown /\ Len(p) > 0 /\ q.head = Len(q.data)}

\* the cases of brspQueue.read that the call on q returning r went through
ReadCases(q, r) ==
    {c \in {"wrapRead", "drain", "partial"} :
        \/ c = "wrapRead" /\ q.head < q.tail /\ Len(r.out) > Len(q.data) - q.tail
        \/ c = "drain" /\ queued(q) > 0 /\ queued(r.q) = 0
        \/ c = "partial" /\ Len(r.out) > 0 /\ queued(r.q) > 0}

QueueFrame == <<engineVars, closed, enginePc, pump, calls, sent, notified, cycle,
                accOrder, readReplies, owed, budget, open>>

\* q.write(p) with len(p) = len
QueueWrite(len) ==
    /\ ring.ops < MaxQueueOps
    /\ LET p == QueueBytes(Len(ring.in), len)
           q2 == write(ring.q, p)
       IN  ring' = [q |-> q2, in |-> ring.in \o p, out |-> ring.out,
                    last |-> [op |-> "write", len |-> len, n |-> 0,
                              cap |-> Len(ring.q.data), was |-> queued(ring.q)],
                    seen |-> ring.seen \cup WriteCases(ring.q, q2, p),
                    ops |-> ring.ops + 1]
    /\ UNCHANGED QueueFrame

\* n := q.read(p) with len(p) = plen
QueueRead(plen) ==
    /\ ring.ops < MaxQueueOps
    /\ LET r == read(ring.q, plen)
       IN  ring' = [q |-> r.q, in |-> ring.in, out |-> ring.out \o r.out,
                    last |-> [op |-> "read", len |-> plen, n |-> Len(r.out),
                              cap |-> Len(ring.q.data), was |-> queued(ring.q)],
                    seen |-> ring.seen \cup ReadCases(ring.q, r),
                    ops |-> ring.ops + 1]
    /\ UNCHANGED QueueFrame

NextQueue ==
    \/ \E n \in QueueWriteLens : QueueWrite(n)
    \/ \E n \in QueueReadLens : QueueRead(n)

SpecQueue == InitWith([outs |-> 0, reads |-> 0, notifs |-> 0]) /\ [][NextQueue]_vars

\* ---------------------------------------------------------------- histories
\* the calls of one kind in the order the Engine accepted them
Accepted(kind) == SelectSeq(accOrder, LAMBDA c : calls[c].kind = kind)

\* the bytes of the buffers passed to Write, in the order the Engine accepted them
WrittenBytes == Flatten([i \in 1..Len(Accepted("Write")) |-> calls[Accepted("Write")[i]].p])

\* call c returns in this step
Returns(c) == calls[c].st # "done" /\ calls'[c].st = "done"

\* Flush call c is the first Flush to return in this step (the Engine answers
\* flushReqs in order)
FirstFlushReturning(c) ==
    /\ calls[c].kind = "Flush"
    /\ Returns(c)
    /\ \A i, j \in 1..Len(flushReqs) :
          (i < j /\ flushReqs[j] = c) => ~Returns(flushReqs[i])

\* ------------------------------------------------------------------ claims

\* C1: a transport write failure is never dropped.  If a physical write has
\* failed, the first Flush that returns after the failure (with another result
\* than the closed error) returns a write error; and a Flush called right
\* after a Flush returned, with no Write in between, returns nil.
C1_WriteFailureReported ==
    [][\A c \in CallIds :
          (FirstFlushReturning(c) /\ calls'[c].err # ErrClosed) =>
              /\ owed => calls'[c].err.kind = "write"
              /\ calls[c].mark = Cardinality(CallsOf("Write")) => calls'[c].err = Nil]_vars

\* C2: a captured write-side error is never duplicated: no two Flush calls
\* return the same write error.
C2_ErrorReportedOnce ==
    \A c1, c2 \in CallsOf("Flush") :
        (/\ c1 # c2
         /\ calls[c1].st = "done" /\ calls[c2].st = "done"
         /\ calls[c1].err.kind = "write") => calls[c1].err # calls[c2].err

\* C3: the payloads of the physical writes, concatenated in issue order, are a
\* prefix of the buffers passed to Write, concatenated in the order the Engine
\* accepted them, and every physical write carries 1 to 20 bytes.
C3_OutboundOrder ==
    /\ IsPrefix(Flatten(sent), WrittenBytes)
    /\ \A i \in 1..Len(sent) : Len(sent[i]) >= 1 /\ Len(sent[i]) <= 20

\* C3's case: two non-empty Writes, one of 45 bytes, all of whose chunks were
\* written, after the physical write of an earlier chunk failed.
C3_Witness ==
    /\ Len(Accepted("Write")) >= 2
    /\ \E i \in 1..Len(Accepted("Write")) : Len(calls[Accepted("Write")[i]].p) = 45
    /\ Len(sent) >= 4
    /\ Flatten(sent) = WrittenBytes
    /\ writeError.kind = "write" /\ writeError.id < Len(sent)

\* the bytes returned by the Read calls, in the order the Engine accepted them
ReadBytes == Flatten([i \in 1..Len(Accepted("Read")) |-> calls[Accepted("Read")[i]].data])

\* the payloads of the notifications, in the order they reached the Engine
NotifiedBytes == Flatten([j \in 1..Len(notified) |-> notified[j].data])

\* C4: the bytes returned by the Read calls, concatenated in the order the
\* calls were issued, are a prefix of the notification payloads concatenated
\* in the order the notifications reached the Engine.
C4_InboundOrder == IsPrefix(ReadBytes, NotifiedBytes)

\* C5: every Read and Flush pending when Close is invoked is replied to: once
\* the Engine has left its loop (it has exited, or sits for ever in a send of
\* its shutdown handler), no caller that was pending at Close is still waiting
\* for its reply.
C5_PendingResolvedOnClose ==
    enginePc \in {"exited", "stuckClose"} =>
        \A c \in CallIds : calls[c].atClose => calls[c].st = "done"

\* the bytes of the Writes accepted before call c, in the order of acceptance
WrittenBefore(order, c) ==
    LET pos == CHOOSE i \in 1..Len(order) : order[i] = c
        ws == SelectSeq(SubSeq(order, 1, pos), LAMBDA w : calls[w].kind = "Write")
    IN  Flatten([i \in 1..Len(ws) |-> calls[ws[i]].p])

\* C6: when a Flush returns another result than the closed error, every byte
\* of every Write accepted before it has been handed to the transport, every
\* physical write has completed and been reported, and nothing is left in the
\* outbound queue or in the outgoing chunk.
C6_FlushGated ==
    [][\A c \in CallIds :
          (calls[c].kind = "Flush" /\ Returns(c) /\ calls'[c].err # ErrClosed) =>
              /\ IsPrefix(WrittenBefore(accOrder', c), Flatten(sent'))
              /\ queued(outQueue') = 0
              /\ outData'.n = 0
              /\ pump'.pc \notin {"writing", "reporting"}]_vars

\* C6's case: a Flush that was queued while the Engine was Active, behind 45
\* bytes or more, has returned a write error.
C6_Witness ==
    \E c \in CallsOf("Flush") :
        /\ calls[c].queued /\ calls[c].st = "done"
        /\ calls[c].err.kind = "write"
        /\ Len(WrittenBefore(accOrder, c)) >= 45

\* the Read calls the Engine queued, in the order it queued them
QueuedReads == SelectSeq(accOrder, LAMBDA c : calls[c].kind = "Read" /\ calls[c].queued)

\* the queued Read calls in the order they were replied to
QueuedReplies == SelectSeq(readReplies, LAMBDA c : calls[c].queued)

\* C7: queued Reads are replied to in the order they were queued, and a
\* notification that arrives while Reads are queued satisfies exactly one of
\* them, the oldest.
C7_ReadFIFO ==
    /\ [](IsPrefix(QueuedReplies, QueuedReads))
    /\ [][(notified' # notified /\ readReqs # <<>>) =>
             /\ readReqs' = Tail(readReqs)
             /\ \A c \in CallIds : Returns(c) <=> c = readReqs[1]]_vars

\* C7's case: two Reads were queued and two notifications have satisfied them.
C7_Witness ==
    /\ Len(QueuedReplies) = 2
    /\ Len(notified) = 2
    /\ \A i \in 1..2 : calls[QueuedReplies[i]].err # ErrClosed

\* the physical writes issued since the Engine last left Idle
CycleSent == SubSeq(sent, cycle.start + 1, Len(sent))

\* the physical writes of a cycle with a single Write of L bytes: never more
\* than ceil(L/20), exactly ceil(L/20) once the Engine is Idle again, each the
\* next 20 bytes of the buffer, the last one the L mod 20 bytes that remain
SingleWriteChunks ==
    Len(cycle.writes) = 1 =>
        LET p == calls[cycle.writes[1]].p
            L == Len(p)
            k == (L + 19) \div 20
        IN  /\ Len(CycleSent) <= k
            /\ ~txMode => Len(CycleSent) = k
            /\ \A i \in 1..Len(CycleSent) :
                  /\ CycleSent[i] = SubSeq(p, 20 * (i - 1) + 1, Min(20 * i, L))
                  /\ Len(CycleSent[i]) = IF i < k \/ L % 20 = 0 THEN 20 ELSE L % 20

\* C8: a single Write of L bytes accepted while Idle, with no other Write
\* accepted before the Engine is Idle again, causes exactly ceil(L/20) physical
\* writes, in order, each of 20 bytes except a final one of L mod 20 bytes,
\* after which the Engine returns to Idle (unless Close is called first).
C8_Fragmentation ==
    /\ []SingleWriteChunks
    /\ (Len(cycle.writes) = 1 /\ txMode) ~> (~txMode \/ closed \/ Len(cycle.writes) > 1)

\* C8's case: a Write of 45 bytes, alone in its cycle, has gone out as three
\* physical writes and the Engine is Idle again; it was not the first cycle.
C8_Witness ==
    /\ ~txMode
    /\ Len(cycle.writes) = 1
    /\ Len(calls[cycle.writes[1]].p) = 45
    /\ Len(CycleSent) = 3
    /\ cycle.start > 0

\* C9: before Close the Engine always returns to its select: it never sits
\* for ever in the send of a reply.
C9_EngineNeverBlocks == ~closed => enginePc = "loop"

\* the only steps that let a caller blocked in the send of its request go on
CallerStep(c) == EngineReadReq(c) \/ EngineWriteReq(c) \/ EngineFlushReq(c)

\* C10: a Read, Write or Flush called after the Engine loop has exited returns:
\* its caller is never left in a send that nobody will ever receive.
C10_LaterCallsReturn ==
    \A c \in CallIds :
        (calls[c].late /\ calls[c].st = "sending") => ENABLED CallerStep(c)

\* C11: Write is fire-and-forget.  A Write call has returned exactly when the
\* Engine has accepted its request, and it returned (len(p), nil): it never
\* waits for a reply and never returns an error, also after physical writes
\* failed.  The step in which it returns involves no step of the Pump and no
\* physical write.
C11_WriteFireAndForget ==
    /\ [](\A c \in CallsOf("Write") :
            /\ calls[c].st # "waiting"
            /\ calls[c].st = "done" <=> (\E i \in 1..Len(accOrder) : accOrder[i] = c)
            /\ calls[c].st = "done" =>
                  (calls[c].err = Nil /\ calls[c].n = Len(calls[c].p)))
    /\ [][\A c \in CallsOf("Write") : Returns(c) => UNCHANGED <<pump, sent>>]_vars

\* C11's case: before Close, a Write of 45 bytes was accepted while the Pump
\* was busy with a physical write that failed (the chunk was handed off when
\* the queue was empty, so the whole buffer sits in the queue and the outgoing
\* chunk is empty), and it has returned (45, nil).
C11_Witness ==
    /\ ~closed
    /\ pump.pc = "reporting"
    /\ outData.n = 0 /\ queued(outQueue) = 45
    /\ accOrder # <<>>
    /\ LET c == accOrder[Len(accOrder)]
       IN  /\ calls[c].kind = "Write" /\ calls[c].st = "done"
           /\ calls[c].n = 45 /\ calls[c].err = Nil

\* C12: no outbound data loss.  The bytes handed to the transport are always
\* a prefix of the bytes accepted by Write (each byte goes out in one physical
\* write at most) and the whole of them whenever the Engine is Idle; and under
\* the scheduling assumptions an Active Engine becomes Idle again, whether or
\* not a Flush is ever called and whether or not physical writes failed,
\* unless Close is called.
C12_NoOutboundLoss ==
    /\ [](/\ IsPrefix(Flatten(sent), WrittenBytes)
          /\ ~txMode => Flatten(sent) = WrittenBytes)
    /\ txMode ~> (closed \/ ~txMode)

\* C12's case: no Flush was ever called and Close was not; the first physical
\* write failed and the failure was reported; all of the 65 bytes or more
\* accepted since have been handed to the transport, in four physical writes
\* or more, and the Pump is idle again.
C12_Witness ==
    /\ ~closed
    /\ CallsOf("Flush") = {}
    /\ writeError = WriteErr(1)
    /\ Len(sent) >= 4
    /\ Len(WrittenBytes) >= 65
    /\ Flatten(sent) = WrittenBytes
    /\ pump.pc = "select"

\* the Engine loop or the Pump has been started
Started == enginePc # "notStarted" \/ pump.pc # "notStarted"

\* the discoveries that were answered show the service, or one of the three
\* characteristics, to be missing
MissingFound ==
    \/ "brspService" \notin open.p.svcs /\ open.p.fail # 1
    \/ "brspService" \in open.p.svcs /\ open.p.chars # Characteristics
                                     /\ open.p.fail \notin {1, 2}

\* C13: Open is all-or-nothing.  Once OpenBRSP has returned: its error is the
\* not-supported error if a discovery showed the service or one of the three
\* characteristics missing, else the error of the call on the peripheral that
\* failed, else nil; if the error is not nil neither the Engine loop nor the
\* Pump was started, and if it is nil both were.  Neither is started before
\* OpenBRSP has made, in this order, the three discoveries, the two
\* SetIndicateValue calls and the write of the single byte 1 to the mode
\* characteristic, all without error.
C13_OpenAllOrNothing ==
    /\ open.step = 0 =>
          /\ open.err = IF MissingFound THEN ErrNotBRSP
                        ELSE IF open.p.fail # 0 THEN PeripheralErr(open.p.fail)
                        ELSE Nil
          /\ open.err # Nil => ~Started
          /\ open.err = Nil => (enginePc = "loop" /\ pump.pc = "select")
    /\ Started => (open.step = 0 /\ open.err = Nil /\ open.log = OpenLog)
    /\ IsPrefix(open.log, OpenLog)

\* C13's case: a peripheral reporting the service and only two of the three
\* characteristics, none of whose calls fails: OpenBRSP has returned the
\* not-supported error after two discoveries and started nothing.
C13_Witness ==
    /\ open.step = 0
    /\ open.p.fail = 0
    /\ "brspService" \in open.p.svcs
    /\ Cardinality(open.p.chars) = 2
    /\ open.err = ErrNotBRSP
    /\ Len(open.log) = 2
    /\ ~Started

\* C14: Ring Queue FIFO.  For any sequence of write and read calls on a
\* brspQueue that starts empty, a read copies min(len(dst), bytes written and
\* not yet read) bytes, and the bytes returned by the reads so far, in order,
\* are a prefix of the bytes passed to the writes so far, in order.
C14_RingFIFO ==
    /\ IsPrefix(ring.out, ring.in)
    /\ ring.last.op = "read" =>
          ring.last.n = Min(ring.last.len, Len(ring.in) - (Len(ring.out) - ring.last.n))

\* C14's case: a write has grown the buffer, a later write has straddled the
\* wrap point, a read has crossed it, and everything written has been read.
C14_Witness ==
    /\ {"grow", "straddle", "wrapRead"} \subseteq ring.seen
    /\ ring.out = ring.in
    /\ Len(ring.in) >= 270

\* C18: Ring Queue cursor invariants.  With C = len(data), after every read
\* or write: head and tail lie in 0..C; queued() is the number of bytes
\* written minus the number of bytes read, and is (head - tail) mod C (0 while
\* the queue has no buffer yet); after a write queued() < C; after a read that
\* leaves the queue empty head = tail = 0; a read leaves C alone, and a write
\* of len(p) bytes that finds space = C - queued() free grows C by
\* max(256, len(p) - space + 1) if len(p) >= space and leaves it alone if not.
C18_RingCursors ==
    LET q == ring.q
        C == Len(q.data)
        last == ring.last
        space == last.cap - last.was
        shortfall == last.len - space
    IN  /\ q.head \in 0..C /\ q.tail \in 0..C
        /\ queued(q) = Len(ring.in) - Len(ring.out)
        /\ queued(q) = IF C > 0 THEN (q.head - q.tail) % C ELSE 0
        /\ q.head = q.tail <=> ring.in = ring.out
        /\ last.op = "write" => queued(q) < C
        /\ (last.op = "read" /\ queued(q) = 0) => (q.head = 0 /\ q.tail = 0)
        /\ last.op = "read" => C = last.cap
        /\ last.op = "write" =>
              C = IF last.len >= space
                  THEN last.cap + (IF shortfall + 1 > MinGrow THEN shortfall + 1 ELSE MinGrow)
                  ELSE last.cap

\* C18's case: a write has ended exactly at the buffer end, the next one has
\* started there, and a write has grown the buffer while the queued bytes
\* were wrapped around its end.
C18_Witness ==
    /\ {"exactEnd", "fromEnd", "growWrapped"} \subseteq ring.seen
    /\ ring.last.op = "write"
    /\ Len(ring.q.data) > MinGrow

\* C15: each Flush request is answered exactly once: whenever the Engine is
\* back in its select, the pending-flush list holds no reply channel that has
\* already been answered, so no later Idle transition and no shutdown sends on
\* it a second time.
C15_FlushAnsweredOnce ==
    enginePc = "loop" =>
        \A i \in 1..Len(flushReqs) : calls[flushReqs[i]].st # "done"

\* the number of bytes notified before notification k
NotifStart(k) == Len(Flatten([j \in 1..(k - 1) |-> notified[j].data]))

\* C16: read-side error position.  A Read that returns bytes together with
\* the error of a notification returns the first byte of that notification
\* among them: the error is not returned with bytes of earlier notifications
\* only.
C16_ReadErrorPosition ==
    \A c \in CallsOf("Read") :
        (/\ calls[c].st = "done"
         /\ calls[c].err.kind = "notify"
         /\ Len(calls[c].data) > 0
         /\ Len(notified[calls[c].err.id].data) > 0) =>
            \E i \in 1..Len(calls[c].data) :
                calls[c].data[i] = (NotifStart(calls[c].err.id) + 1) % 256

\* C17: shutdown terminates both tasks: after Close neither is ever in a
\* place it cannot leave.  The Engine is not blocked in the send of a reply
\* nobody receives (in handleOutgoingData or in its shutdown handler), and
\* the Pump is not blocked in the report of a failed physical write to an
\* Engine that has left its loop.
C17_ShutdownTerminates ==
    closed =>
        /\ enginePc \notin {"stuckFlush", "stuckClose"}
        /\ ~(pump.pc = "reporting" /\ enginePc = "exited")

\* C19: implicit Idle invariant.  Whenever the Engine is Idle and in its
\* select, the outbound queue is empty, the outgoing chunk has length 0, the
\* Pump is neither in a physical write nor reporting a failure, and the
\* captured write-side error is nil; and a Flush that the Engine handles
\* while Idle returns nil.
C19_IdleInvariant ==
    /\ []((~txMode /\ enginePc = "loop") =>
            /\ queued(outQueue) = 0
            /\ outData.n = 0
            /\ pump.pc \notin {"writing", "reporting"}
            /\ writeError = Nil)
    /\ [][\A c \in CallsOf("Flush") :
            (~txMode /\ accOrder' = Append(accOrder, c)) =>
                (Returns(c) /\ calls'[c].err = Nil)]_vars

\* C19's case: before Close, the Engine is Idle again and in its select after
\* a cycle of three physical writes or more, one of which failed and was
\* reported to no Flush.
C19_Witness ==
    /\ ~closed
    /\ ~txMode /\ enginePc = "loop"
    /\ Len(sent) >= 3
    /\ owed

\* C20: implicit inbound invariant.  Whenever the Engine is in its select,
\* the pending-read list and the inbound queue are not both non-empty: no
\* Read waits while inbound bytes are buffered.
C20_NoReadWaitsOnBufferedBytes ==
    enginePc = "loop" => ~(Len(readReqs) > 0 /\ queued(inQueue) > 0)

====
